---- MODULE Spec2Model ----
(***************************************************************************)
(* Model of the product migration route app/routes/api.migrate-products.js *)
(* The file holds two generations of the loader:                           *)
(*   "session" : lines 50-216, authenticates through authenticate.admin    *)
(*   "token"   : lines 279-419, talks to the shop with an admin token      *)
(* Every await of the loader is one position of pc; an action is the       *)
(* settling of the awaited promise followed by the synchronous code up to  *)
(* the next await.                                                         *)
(***************************************************************************)
EXTENDS Integers, Sequences, FiniteSets, TLC

\* ---------------------------------------------------------------- bounds
MaxDocs == 2

\* ------------------------------------------------------- program constants
BATCH_SIZE == 10
MetafieldPause == 200
RecordPause == 350
BatchPause == 1000

Handlers == {1, 2}
Variants == {"session", "token"}

\* ------------------------------------------------------------ JS values
Undefined == [t |-> "undefined"]
Null == [t |-> "null"]
Str(s) == [t |-> "string", s |-> s]
Num(n) == [t |-> "number", n |-> n]
Arr(a) == [t |-> "array", a |-> a]
Obj(id) == [t |-> "object", id |-> id]

\* JS truthiness: "", 0, null and undefined are falsy
Truthy(v) ==
  CASE v.t = "string" -> v.s # ""
    [] v.t = "number" -> v.n # 0
    [] v.t \in {"array", "object"} -> TRUE
    [] OTHER -> FALSE

\* a || b
Or(a, b) == IF Truthy(a) THEN a ELSE b

Nullish(v) == v.t \in {"undefined", "null"}

Digits == <<"0", "1", "2", "3", "4", "5", "6", "7", "8", "9">>

RECURSIVE NumToStr(_)
NumToStr(n) ==
  IF n < 10 THEN Digits[n + 1]
  ELSE NumToStr(n \div 10) \o Digits[(n % 10) + 1]

\* String(v) and v.toString() on a non-nullish value
String(v) ==
  CASE v.t = "string" -> v
    [] v.t = "number" -> Str(NumToStr(v.n))
    [] v.t = "undefined" -> Str("undefined")
    [] v.t = "null" -> Str("null")
    [] OTHER -> Str("[object]")

Min(a, b) == IF a < b THEN a ELSE b

\* docs.slice(from, to), 0-based, end exclusive
Slice(s, from, to) == SubSeq(s, from + 1, Min(to, Len(s)))

\* ------------------------------------------------------- Source Records
Now == Str("2025-01-01T00:00:00.000Z")

BaseRecord ==
  [name |-> Str("Robot"), supplier |-> Str("Acme"), group |-> Str("Toys"),
   subCategory |-> Str("Robots"), rate |-> Num(5), barcode |-> Str("890"),
   stock |-> Num(3), mrp |-> Num(9), images |-> Arr(<<"u1", "u2">>),
   brand |-> Str("Lego"), suppdate |-> Str("2024"), suppinvo |-> Str("INV1"),
   value |-> Num(7), shopifyId |-> Undefined, migratedAt |-> Undefined]

\* no rate, all four metadata sources falsy, optional fields missing, and
\* an empty shopifyId
BareRecord ==
  [name |-> Undefined, supplier |-> Str(""), group |-> Undefined,
   subCategory |-> Undefined, rate |-> Undefined, barcode |-> Undefined,
   stock |-> Undefined, mrp |-> Undefined, images |-> Undefined,
   brand |-> Str(""), suppdate |-> Undefined, suppinvo |-> Null,
   value |-> Num(0), shopifyId |-> Str(""), migratedAt |-> Undefined]

Templates ==
  { BaseRecord,
    BareRecord,
    [BaseRecord EXCEPT !.rate = Num(0), !.mrp = Num(0), !.brand = Str(""),
                       !.suppinvo = Undefined],
    [BaseRecord EXCEPT !.shopifyId = Num(900), !.migratedAt = Now] }

DocId(n) == "d" \o NumToStr(n)

Collections ==
  UNION { { [n \in 1..len |-> [id |-> DocId(n), data |-> f[n]]] :
              f \in [1..len -> Templates] } : len \in 0..MaxDocs }

\* --------------------------------------------------------- environment
Envs ==
  { e \in [MIGRATION_SECRET : {Undefined, Str("s3cret")},
           FIREBASE_SERVICE_ACCOUNT_PATH : {Undefined, Str("key.json")},
           FIREBASE_SERVICE_ACCOUNT_JSON : {Undefined, Str("{}")},
           fileExists : BOOLEAN,
           keyParses : BOOLEAN] :
      \* the file system matters only under a path, and the inline JSON
      \* is never read when the key file is there (line 33 is an else)
      /\ e.fileExists => Truthy(e.FIREBASE_SERVICE_ACCOUNT_PATH)
      /\ e.fileExists => ~Truthy(e.FIREBASE_SERVICE_ACCOUNT_JSON) }

Secrets == {Null, Str(""), Str("wrong"), Str("s3cret")}

\* what authenticate.admin may resolve its session to
Sessions == {Null, Obj(Str("offline_shop"))}

VARIABLES
  env,        \* process.env and the file system, fixed for the process
  adminApps,  \* admin.apps.length
  store,      \* the Firestore collection productCollection
  request,    \* per handler: the request, with its secret parameter
  session,    \* per handler: the session destructured from authenticate.admin
  products,   \* the products created on the shop, in creation order
  pc,         \* per handler: the await it is suspended at
  variant,    \* per handler: which loader serves the request
  docs,       \* per handler: snapshot.docs
  i,          \* per handler: batch start index of the outer loop
  k,          \* per handler: position inside the batch
  mf,         \* per handler: index of the metafield being created
  shopifyId,  \* per handler: id extracted from the creation response
  migrated,   \* per handler: the success counter
  response,   \* per handler: the Response returned
  log         \* per handler: collaborator calls and their outcomes

vars == <<env, adminApps, store, request, session, products, pc, variant,
          docs, i, k, mf, shopifyId, migrated, response, log>>

NoResponse == [status |-> 0, body |-> "", migrated |-> 0]

Init ==
  /\ env \in Envs
  /\ adminApps = 0
  /\ store \in Collections
  /\ request = [h \in Handlers |-> [secret |-> Null]]
  /\ session = [h \in Handlers |-> Undefined]
  /\ products = <<>>
  /\ pc = [h \in Handlers |-> "idle"]
  /\ variant = [h \in Handlers |-> "session"]
  /\ docs = [h \in Handlers |-> <<>>]
  /\ i = [h \in Handlers |-> 0]
  /\ k = [h \in Handlers |-> 0]
  /\ mf = [h \in Handlers |-> 0]
  /\ shopifyId = [h \in Handlers |-> Undefined]
  /\ migrated = [h \in Handlers |-> 0]
  /\ response = [h \in Handlers |-> NoResponse]
  /\ log = [h \in Handlers |-> <<>>]

Set(f, h, v) == [f EXCEPT ![h] = v]

\* ------------------------------------------------ initFirebaseFromEnv
\* mutant: the early return on admin.apps.length dropped
initFirebaseAlways(apps, e) ==
  IF Truthy(e.FIREBASE_SERVICE_ACCOUNT_PATH) THEN
    IF ~e.fileExists
      THEN [apps |-> apps, threw |-> TRUE,
            message |-> "Firebase service account file not found"]
    ELSE IF ~e.keyParses
      THEN [apps |-> apps, threw |-> TRUE, message |-> "SyntaxError"]
    ELSE [apps |-> apps + 1, threw |-> FALSE, message |-> ""]
  ELSE IF Truthy(e.FIREBASE_SERVICE_ACCOUNT_JSON) THEN
    IF ~e.keyParses
      THEN [apps |-> apps, threw |-> TRUE, message |-> "SyntaxError"]
    ELSE [apps |-> apps + 1, threw |-> FALSE, message |-> ""]
  ELSE [apps |-> apps, threw |-> TRUE,
        message |-> "No Firebase credentials found"]

initFirebaseFromEnv(apps, e) ==
  IF apps > 0 THEN [apps |-> apps, threw |-> FALSE, message |-> ""]
  ELSE IF Truthy(e.FIREBASE_SERVICE_ACCOUNT_PATH) THEN
    IF ~e.fileExists
      THEN [apps |-> apps, threw |-> TRUE,
            message |-> "Firebase service account file not found"]
    ELSE IF ~e.keyParses
      THEN [apps |-> apps, threw |-> TRUE, message |-> "SyntaxError"]
    ELSE [apps |-> apps + 1, threw |-> FALSE, message |-> ""]
  ELSE IF Truthy(e.FIREBASE_SERVICE_ACCOUNT_JSON) THEN
    IF ~e.keyParses
      THEN [apps |-> apps, threw |-> TRUE, message |-> "SyntaxError"]
    ELSE [apps |-> apps + 1, threw |-> FALSE, message |-> ""]
  ELSE [apps |-> apps, threw |-> TRUE,
        message |-> "No Firebase credentials found"]

\* ------------------------------------------------------ record transform
\* the product payload handed to Product.create
productPayload(v, p) ==
  [title |-> Or(p.name, Str("Untitled Product")),
   body_html |-> Str(""),
   vendor |-> Or(p.supplier, Str("Unknown")),
   product_type |-> Or(p.group, Str("")),
   tags |-> IF Truthy(p.subCategory) THEN <<p.subCategory>> ELSE <<>>,
   price |-> IF Nullish(p.rate) THEN Undefined ELSE String(p.rate),
   sku |-> Or(p.barcode, Undefined),
   inventory_management |-> Str("shopify"),
   inventory_quantity |-> IF p.stock.t = "number" THEN p.stock ELSE Undefined,
   compare_at_price |->
     IF v = "session"
       THEN (IF Truthy(p.mrp) THEN String(p.mrp) ELSE Undefined)
       ELSE (IF Nullish(p.mrp) THEN Undefined ELSE String(p.mrp)),
   images |->
     IF p.images.t = "array" /\ Len(p.images.a) > 0
       THEN [n \in 1..Len(p.images.a) |-> [src |-> p.images.a[n]]]
       ELSE <<>>]

\* building the payload throws a TypeError: p.rate.toString() on a nullish
\* rate (the token loader uses p.rate?.toString())
payloadThrows(v, p) == v = "session" /\ Nullish(p.rate)

\* mutant: a missing brand defaults to a placeholder text
metafieldsDefaulted(v, p) ==
  << [key |-> "brand", type |-> "single_line_text_field",
      value |-> Or(p.brand, Str("Unknown"))],
     [key |-> "suppdate", type |-> "single_line_text_field",
      value |-> Or(p.suppdate, Str(""))],
     [key |-> "suppinvo", type |-> "single_line_text_field",
      value |-> Or(p.suppinvo, Str(""))],
     [key |-> "value", type |-> "number_integer",
      value |-> Or(p.value, Num(0))] >>

\* the metafields array of one record
metafields(v, p) ==
  IF v = "session" THEN
    << [key |-> "brand", type |-> "single_line_text_field",
        value |-> Or(p.brand, Str(""))],
       [key |-> "suppdate", type |-> "single_line_text_field",
        value |-> Or(p.suppdate, Str(""))],
       [key |-> "suppinvo", type |-> "single_line_text_field",
        value |-> Or(p.suppinvo, Str(""))],
       [key |-> "value", type |-> "number_integer",
        value |-> Or(p.value, Num(0))] >>
  ELSE
    << [key |-> "brand", type |-> "single_line_text_field", value |-> p.brand],
       [key |-> "suppdate", type |-> "single_line_text_field",
        value |-> p.suppdate],
       [key |-> "suppinvo", type |-> "single_line_text_field",
        value |-> p.suppinvo],
       [key |-> "value", type |-> "number_integer", value |-> p.value] >>

\* for (const mf of metafields) { if (!mf.value) continue; ... }: the index
\* of the next metafield that is created, Len + 1 when the loop is over
RECURSIVE NextMf(_, _)
NextMf(mfs, from) ==
  IF from > Len(mfs) THEN from
  ELSE IF Truthy(mfs[from].value) THEN from
  ELSE NextMf(mfs, from + 1)

\* the id read from the creation response
ExtractId(v, created) ==
  IF v = "session" THEN
    LET shopifyProduct == Or(created.body_product, Or(created.product, Null))
    IN IF Nullish(shopifyProduct) THEN Undefined ELSE shopifyProduct.id
  ELSE IF Nullish(created.product) THEN Undefined ELSE created.product.id

\* the responses Product.create may resolve with for a product given id n
Responses(n) ==
  { [body_product |-> Obj(Num(n)), product |-> Undefined],
    [body_product |-> Undefined, product |-> Obj(Num(n))],
    [body_product |-> Undefined, product |-> Obj(Null)],
    [body_product |-> Undefined, product |-> Undefined] }

\* mutant: docRef.set(data), which drops every field data does not name
ApplyUpdateSet(coll, id, data) ==
  [n \in 1..Len(coll) |->
     IF coll[n].id # id THEN coll[n]
     ELSE [coll[n] EXCEPT
             !.data = [f \in DOMAIN coll[n].data |->
                         IF f \in DOMAIN data THEN data[f] ELSE Undefined]]]

\* docRef.update(data): only the fields of data change; an undefined value
\* is left out (ignoreUndefinedProperties)
ApplyUpdate(coll, id, data) ==
  [n \in 1..Len(coll) |->
     IF coll[n].id # id THEN coll[n]
     ELSE [coll[n] EXCEPT
             !.data = [f \in DOMAIN coll[n].data |->
                         IF f \in DOMAIN data /\ data[f] # Undefined
                           THEN data[f] ELSE coll[n].data[f]]]]

\* mutant: only a string id counts as already migrated
RECURSIVE ScanStringIds(_, _, _, _)
ScanStringIds(v, batch, kk, lg) ==
  IF kk >= Len(batch) THEN [kind |-> "batchEnd", k |-> kk, log |-> lg]
  ELSE LET docSnap == batch[kk + 1]
           p == docSnap.data
       IN IF p.shopifyId.t = "string" /\ Truthy(p.shopifyId)
            THEN ScanStringIds(v, batch, kk + 1,
                               Append(lg, [op |-> "skip", doc |-> docSnap.id]))
          ELSE IF payloadThrows(v, p)
            THEN [kind |-> "throw", k |-> kk, log |-> lg]
          ELSE [kind |-> "create", k |-> kk, log |-> lg]

\* the synchronous head of the inner loop from batch position kk: skipped
\* records are passed without an await, up to the first record that is
\* submitted, the end of the batch, or a throw outside the per-record try
RECURSIVE Scan(_, _, _, _)
Scan(v, batch, kk, lg) ==
  IF kk >= Len(batch) THEN [kind |-> "batchEnd", k |-> kk, log |-> lg]
  ELSE LET docSnap == batch[kk + 1]
           p == docSnap.data
       IN IF Truthy(p.shopifyId)
            THEN Scan(v, batch, kk + 1,
                      Append(lg, [op |-> "skip", doc |-> docSnap.id]))
          ELSE IF payloadThrows(v, p)
            THEN [kind |-> "throw", k |-> kk, log |-> lg]
          ELSE [kind |-> "create", k |-> kk, log |-> lg]

\* the record the handler is working on
Current(h) == docs[h][i[h] + k[h] + 1]

Finish(h, resp, lg) ==
  /\ pc' = Set(pc, h, "done")
  /\ response' = Set(response, h, resp)
  /\ log' = Set(log, h, lg)

Respond500(h, message, lg) ==
  Finish(h, [status |-> 500, body |-> message, migrated |-> 0], lg)

\* mutant: the batch pause only between batches, none after the last
LoopPauseBetween(h, ds, ii, kk, lg) ==
  IF ii >= Len(ds) THEN
    /\ i' = Set(i, h, ii)
    /\ k' = Set(k, h, kk)
    /\ Finish(h, [status |-> 200, body |-> "success",
                  migrated |-> migrated'[h]], lg)
  ELSE
    LET batch == Slice(ds, ii, ii + BATCH_SIZE)
        r == Scan(variant[h], batch, kk, lg)
    IN /\ i' = Set(i, h, ii)
       /\ k' = Set(k, h, r.k)
       /\ CASE r.kind = "create" ->
                 /\ pc' = Set(pc, h, "Product.create")
                 /\ log' = Set(log, h, Append(r.log,
                      [op |-> "Product.create", doc |-> batch[r.k + 1].id,
                       data |-> productPayload(variant[h],
                                               batch[r.k + 1].data)]))
                 /\ UNCHANGED response
            [] r.kind = "batchEnd" /\ ii + BATCH_SIZE < Len(ds) ->
                 /\ pc' = Set(pc, h, "sleep1000")
                 /\ log' = Set(log, h,
                      Append(r.log, [op |-> "sleep", ms |-> BatchPause]))
                 /\ UNCHANGED response
            [] r.kind = "batchEnd" /\ ii + BATCH_SIZE >= Len(ds) ->
                 Finish(h, [status |-> 200, body |-> "success",
                            migrated |-> migrated'[h]], r.log)
            [] OTHER ->
                 Respond500(h, "TypeError", r.log)

\* the two for loops from (ii, kk) up to the next await or the return
Loop(h, ds, ii, kk, lg) ==
  IF ii >= Len(ds) THEN
    /\ i' = Set(i, h, ii)
    /\ k' = Set(k, h, kk)
    /\ Finish(h, [status |-> 200, body |-> "success",
                  migrated |-> migrated'[h]], lg)
  ELSE
    LET batch == Slice(ds, ii, ii + BATCH_SIZE)
        r == Scan(variant[h], batch, kk, lg)
    IN /\ i' = Set(i, h, ii)
       /\ k' = Set(k, h, r.k)
       /\ CASE r.kind = "create" ->
                 /\ pc' = Set(pc, h, "Product.create")
                 /\ log' = Set(log, h, Append(r.log,
                      [op |-> "Product.create", doc |-> batch[r.k + 1].id,
                       data |-> productPayload(variant[h],
                                               batch[r.k + 1].data)]))
                 /\ UNCHANGED response
            [] r.kind = "batchEnd" ->
                 /\ pc' = Set(pc, h, "sleep1000")
                 /\ log' = Set(log, h,
                      Append(r.log, [op |-> "sleep", ms |-> BatchPause]))
                 /\ UNCHANGED response
            [] OTHER ->
                 Respond500(h, "TypeError", r.log)

\* initFirebaseFromEnv(); admin.firestore(); await collection.get()
StartFirebase(h, lg) ==
  LET r == initFirebaseFromEnv(adminApps, env)
  IN IF r.threw
       THEN /\ UNCHANGED adminApps
            /\ Respond500(h, r.message, lg)
       ELSE /\ adminApps' = r.apps
            /\ pc' = Set(pc, h, "collection.get")
            /\ log' = Set(log, h,
                 (IF r.apps > adminApps
                    THEN Append(lg, [op |-> "initializeApp"]) ELSE lg)
                 \o << [op |-> "collection.get"] >>)
            /\ UNCHANGED response

\* mutant: if (secret != process.env.MIGRATION_SECRET), the test for a
\* missing secret dropped and the comparison loose
UnauthorizedLoose(secret, e) ==
  ~(secret = e.MIGRATION_SECRET
      \/ (Nullish(secret) /\ Nullish(e.MIGRATION_SECRET)))

\* if (!secret || secret !== process.env.MIGRATION_SECRET)
Unauthorized(secret, e) == ~Truthy(secret) \/ secret # e.MIGRATION_SECRET

\* ------------------------------------------------------------- actions
Request(h, v, secret) ==
  /\ pc[h] = "idle"
  /\ variant' = Set(variant, h, v)
  /\ request' = Set(request, h, [secret |-> secret])
  /\ IF Unauthorized(secret, env)
       THEN /\ Finish(h, [status |-> 401, body |-> "Unauthorized",
                          migrated |-> 0], log[h])
            /\ UNCHANGED adminApps
     ELSE IF v = "session"
       THEN /\ pc' = Set(pc, h, "authenticate")
            /\ log' = Set(log, h, Append(log[h], [op |-> "authenticate"]))
            /\ UNCHANGED <<adminApps, response>>
     ELSE StartFirebase(h, log[h])
  /\ UNCHANGED <<env, session, store, products, docs, i, k, mf, shopifyId,
                 migrated>>

\* mutant: the session is never tested
AuthReturnsUnchecked(h, s) ==
  /\ pc[h] = "authenticate"
  /\ session' = Set(session, h, s)
  /\ StartFirebase(h, log[h])
  /\ UNCHANGED <<env, request, store, products, variant, docs, i, k, mf,
                 shopifyId, migrated>>

\* const { session } = await authenticate.admin(request) resolves
AuthReturns(h, s) ==
  /\ pc[h] = "authenticate"
  /\ session' = Set(session, h, s)
  /\ IF ~Truthy(s)
       THEN /\ Finish(h, [status |-> 401, body |-> "No Shopify session",
                          migrated |-> 0], log[h])
            /\ UNCHANGED adminApps
       ELSE StartFirebase(h, log[h])
  /\ UNCHANGED <<env, request, store, products, variant, docs, i, k, mf,
                 shopifyId, migrated>>

AuthThrows(h) ==
  /\ pc[h] = "authenticate"
  /\ Respond500(h, "authenticate",
       Append(log[h], [op |-> "throw", of |-> "authenticate", doc |-> "-"]))
  /\ UNCHANGED <<env, request, session, adminApps, store, products, variant,
                 docs, i, k, mf, shopifyId, migrated>>

GetReturns(h) ==
  /\ pc[h] = "collection.get"
  /\ docs' = Set(docs, h, store)
  /\ migrated' = Set(migrated, h, 0)
  /\ Loop(h, store, 0, 0,
          Append(log[h],
                 [op |-> "return", of |-> "collection.get", doc |-> "-"]))
  /\ UNCHANGED <<env, request, session, adminApps, store, products, variant,
                 mf, shopifyId>>

GetThrows(h) ==
  /\ pc[h] = "collection.get"
  /\ Respond500(h, "collection.get",
       Append(log[h], [op |-> "throw", of |-> "collection.get", doc |-> "-"]))
  /\ UNCHANGED <<env, request, session, adminApps, store, products, variant,
                 docs, i, k, mf, shopifyId, migrated>>

\* mutant: Metafield.create is called without await, so the loop runs on to
\* docRef.update while the metafield creation is still in flight
ContinueMetafieldsUnawaited(h, from, sid, lg) ==
  LET docSnap == Current(h)
      mfs == metafields(variant[h], docSnap.data)
      j == NextMf(mfs, from)
      upd == [op |-> "update", doc |-> docSnap.id,
              data |-> [shopifyId |-> sid, migratedAt |-> Now]]
  IN /\ mf' = Set(mf, h, j)
     /\ pc' = Set(pc, h, "update")
     /\ IF j <= Len(mfs)
          THEN log' = Set(log, h, lg \o
                 << [op |-> "Metafield.create", doc |-> docSnap.id,
                     owner_id |-> sid, key |-> mfs[j].key,
                     type |-> mfs[j].type, value |-> String(mfs[j].value)],
                    upd >>)
          ELSE log' = Set(log, h, Append(lg, upd))

\* the metafield loop from index `from` up to its next await: the next
\* Metafield.create, or docRef.update when the loop is over
ContinueMetafields(h, from, sid, lg) ==
  LET docSnap == Current(h)
      mfs == metafields(variant[h], docSnap.data)
      j == NextMf(mfs, from)
  IN /\ mf' = Set(mf, h, j)
     /\ IF j <= Len(mfs)
          THEN /\ pc' = Set(pc, h, "Metafield.create")
               /\ log' = Set(log, h, Append(lg,
                    [op |-> "Metafield.create", doc |-> docSnap.id,
                     owner_id |-> sid, key |-> mfs[j].key,
                     type |-> mfs[j].type, value |-> String(mfs[j].value)]))
          ELSE /\ pc' = Set(pc, h, "update")
               /\ log' = Set(log, h, Append(lg,
                    [op |-> "update", doc |-> docSnap.id,
                     data |-> [shopifyId |-> sid, migratedAt |-> Now]]))

\* catch (err) { console.error(...) } then await sleep(350)
Caught(h, of) ==
  /\ pc' = Set(pc, h, "sleep350")
  /\ log' = Set(log, h, log[h] \o
       << [op |-> "throw", of |-> of, doc |-> Current(h).id],
          [op |-> "sleep", ms |-> RecordPause] >>)

NextProductId == 1000 + Len(products) + 1

CreateReturns(h, created) ==
  /\ pc[h] = "Product.create"
  /\ created \in Responses(NextProductId)
  /\ products' = Append(products, [src |-> Current(h).id, id |-> NextProductId])
  /\ shopifyId' = Set(shopifyId, h, ExtractId(variant[h], created))
  /\ ContinueMetafields(h, 1, shopifyId'[h],
       Append(log[h], [op |-> "return", of |-> "Product.create",
                       doc |-> Current(h).id, id |-> shopifyId'[h]]))
  /\ UNCHANGED <<env, request, session, adminApps, store, variant, docs, i, k,
                 migrated, response>>

CreateThrows(h) ==
  /\ pc[h] = "Product.create"
  /\ Caught(h, "Product.create")
  /\ UNCHANGED <<env, request, session, adminApps, store, products, variant,
                 docs, i, k, mf, shopifyId, migrated, response>>

MetafieldReturns(h) ==
  /\ pc[h] = "Metafield.create"
  /\ pc' = Set(pc, h, "sleep200")
  /\ log' = Set(log, h, log[h] \o
       << [op |-> "return", of |-> "Metafield.create", doc |-> Current(h).id],
          [op |-> "sleep", ms |-> MetafieldPause] >>)
  /\ UNCHANGED <<env, request, session, adminApps, store, products, variant,
                 docs, i, k, mf, shopifyId, migrated, response>>

\* mutant: the metafield call has a try/catch of its own and the loop goes on
MetafieldThrowsSwallowed(h) ==
  /\ pc[h] = "Metafield.create"
  /\ ContinueMetafields(h, mf[h] + 1, shopifyId[h],
       Append(log[h], [op |-> "throw", of |-> "Metafield.create",
                       doc |-> Current(h).id]))
  /\ UNCHANGED <<env, request, session, adminApps, store, products, variant,
                 docs, i, k, shopifyId, migrated, response>>

MetafieldThrows(h) ==
  /\ pc[h] = "Metafield.create"
  /\ Caught(h, "Metafield.create")
  /\ UNCHANGED <<env, request, session, adminApps, store, products, variant,
                 docs, i, k, mf, shopifyId, migrated, response>>

Sleep200Done(h) ==
  /\ pc[h] = "sleep200"
  /\ ContinueMetafields(h, mf[h] + 1, shopifyId[h], log[h])
  /\ UNCHANGED <<env, request, session, adminApps, store, products, variant,
                 docs, i, k, shopifyId, migrated, response>>

\* the update resolves: the marker is stored, migrated++, await sleep(350).
\* With shopifyId undefined Firestore either rejects the call (its default,
\* UpdateThrows) or drops the field (ignoreUndefinedProperties); the loader
\* sets neither, so both outcomes are kept.
UpdateReturns(h) ==
  /\ pc[h] = "update"
  /\ store' = ApplyUpdate(store, Current(h).id,
                          [shopifyId |-> shopifyId[h], migratedAt |-> Now])
  /\ migrated' = Set(migrated, h, migrated[h] + 1)
  /\ pc' = Set(pc, h, "sleep350")
  /\ log' = Set(log, h, log[h] \o
       << [op |-> "return", of |-> "update", doc |-> Current(h).id],
          [op |-> "sleep", ms |-> RecordPause] >>)
  /\ UNCHANGED <<env, request, session, adminApps, products, variant, docs, i,
                 k, mf, shopifyId, response>>

UpdateThrows(h) ==
  /\ pc[h] = "update"
  /\ Caught(h, "update")
  /\ UNCHANGED <<env, request, session, adminApps, store, products, variant,
                 docs, i, k, mf, shopifyId, migrated, response>>

\* mutant: the timer of sleep never fires (the promise is never resolved)
Sleep350Never(h) ==
  /\ pc[h] = "sleep350"
  /\ FALSE
  /\ UNCHANGED vars

Sleep350Done(h) ==
  /\ pc[h] = "sleep350"
  /\ UNCHANGED migrated
  /\ Loop(h, docs[h], i[h], k[h] + 1, log[h])
  /\ UNCHANGED <<env, request, session, adminApps, store, products, variant,
                 docs, mf, shopifyId>>

Sleep1000Done(h) ==
  /\ pc[h] = "sleep1000"
  /\ UNCHANGED migrated
  /\ Loop(h, docs[h], i[h] + BATCH_SIZE, 0, log[h])
  /\ UNCHANGED <<env, request, session, adminApps, store, products, variant,
                 docs, mf, shopifyId>>

\* the steps of the invocation h of the loader after its request
Run(h) ==
  \/ \E s \in Sessions : AuthReturns(h, s)
  \/ AuthThrows(h)
  \/ GetReturns(h)
  \/ GetThrows(h)
  \/ \E created \in Responses(NextProductId) : CreateReturns(h, created)
  \/ CreateThrows(h)
  \/ MetafieldReturns(h)
  \/ MetafieldThrows(h)
  \/ Sleep200Done(h)
  \/ UpdateReturns(h)
  \/ UpdateThrows(h)
  \/ Sleep350Done(h)
  \/ Sleep1000Done(h)

\* the invocation h of the loader, from its request on
Step(h) ==
  \/ \E v \in Variants, secret \in Secrets : Request(h, v, secret)
  \/ Run(h)

\* one request served by the process
Next == Step(1)

Spec == Init /\ [][Next]_vars

\* ------------------------------------------- a collection of two batches
\* the number of records of the larger collections: more than BATCH_SIZE,
\* so that docs.slice cuts a second batch
BatchDocs == 12

\* a record with a rate and one truthy metadata source (brand)
BatchRecord ==
  [BaseRecord EXCEPT !.suppdate = Undefined, !.suppinvo = Undefined,
                     !.value = Num(0)]

\* the positions on either side of the first batch boundary
BoundaryPositions == {BATCH_SIZE, BATCH_SIZE + 1}

Filled(n, q, data) ==
  [m \in 1..n |->
     [id |-> DocId(m), data |-> IF m = q THEN data ELSE BatchRecord]]

\* collections of about BatchDocs unmigrated records, and those of BatchDocs
\* records with a rateless or an already migrated record at the boundary
BatchCollections ==
  { Filled(n, 0, BatchRecord) : n \in (BatchDocs - 2)..BatchDocs }
    \cup { Filled(BatchDocs, q, data) :
             q \in BoundaryPositions,
             data \in {BareRecord,
                       [BatchRecord EXCEPT !.shopifyId = Str("gid900"),
                                           !.migratedAt = Now]} }

\* a process whose secret and inline service account are configured
BatchEnvs ==
  { e \in Envs : /\ Truthy(e.MIGRATION_SECRET)
                 /\ ~Truthy(e.FIREBASE_SERVICE_ACCOUNT_PATH)
                 /\ Truthy(e.FIREBASE_SERVICE_ACCOUNT_JSON)
                 /\ e.keyParses }

InitBatch ==
  /\ env \in BatchEnvs
  /\ adminApps = 0
  /\ store \in BatchCollections
  /\ request = [h \in Handlers |-> [secret |-> Null]]
  /\ session = [h \in Handlers |-> Undefined]
  /\ products = <<>>
  /\ pc = [h \in Handlers |-> "idle"]
  /\ variant = [h \in Handlers |-> "session"]
  /\ docs = [h \in Handlers |-> <<>>]
  /\ i = [h \in Handlers |-> 0]
  /\ k = [h \in Handlers |-> 0]
  /\ mf = [h \in Handlers |-> 0]
  /\ shopifyId = [h \in Handlers |-> Undefined]
  /\ migrated = [h \in Handlers |-> 0]
  /\ response = [h \in Handlers |-> NoResponse]
  /\ log = [h \in Handlers |-> <<>>]

\* the record in hand lies at the batch boundary
AtBoundary(h) == Current(h).id \in {DocId(q) : q \in BoundaryPositions}

\* the steps of the invocation h in which the collaborators fail, or answer
\* without a product id, only for the records at the batch boundary (and
\* for the calls of the setup)
StepBatch(h) ==
  \/ \E v \in Variants, secret \in Secrets : Request(h, v, secret)
  \/ \E s \in Sessions : AuthReturns(h, s)
  \/ AuthThrows(h)
  \/ GetReturns(h)
  \/ GetThrows(h)
  \/ \E created \in Responses(NextProductId) :
       /\ pc[h] = "Product.create"
       /\ AtBoundary(h) \/ ExtractId(variant[h], created).t = "number"
       /\ CreateReturns(h, created)
  \/ (pc[h] = "Product.create" /\ AtBoundary(h) /\ CreateThrows(h))
  \/ MetafieldReturns(h)
  \/ (pc[h] = "Metafield.create" /\ AtBoundary(h) /\ MetafieldThrows(h))
  \/ Sleep200Done(h)
  \/ UpdateReturns(h)
  \/ (pc[h] = "update" /\ AtBoundary(h) /\ UpdateThrows(h))
  \/ Sleep350Done(h)
  \/ Sleep1000Done(h)

\* one request served over such a collection
NextBatch == StepBatch(1)

SpecBatch == InitBatch /\ [][NextBatch]_vars

\* every awaited call returns or throws and every timer fires: a step of the
\* invocation that can be taken is taken
SpecLive == InitBatch /\ [][NextBatch]_vars /\ WF_vars(NextBatch)

\* ------------------------------------------------- observers of a run
\* a stored value that is a non-empty string or a non-zero number
NonEmpty(v) == (v.t = "string" /\ v.s # "") \/ (v.t = "number" /\ v.n # 0)

OfDoc(e, d) == "doc" \in DOMAIN e /\ e.doc = d

\* positions in the log of handler h of the calls `op` made for document d
CallsOf(h, op, d) ==
  {m \in DOMAIN log[h] : log[h][m].op = op /\ OfDoc(log[h][m], d)}

\* positions of the outcomes ("return" or "throw") of the calls `of` for d
Outcomes(h, kind, of, d) ==
  {m \in DOMAIN log[h] :
     log[h][m].op = kind /\ log[h][m].of = of /\ log[h][m].doc = d}

\* calls that reach the document store or the shop
ExternalCalls(h) ==
  {m \in DOMAIN log[h] :
     log[h][m].op \in {"initializeApp", "collection.get", "Product.create",
                       "Metafield.create", "update"}}

\* the documents whose update resolved, each followed by migrated++
Counted(h) ==
  {log[h][m].doc : m \in {x \in DOMAIN log[h] :
     log[h][x].op = "return" /\ log[h][x].of = "update"}}

BadSecret(h) ==
  \/ request[h].secret \in {Null, Str("")}
  \/ request[h].secret # env.MIGRATION_SECRET

\* the invocation holds a session of the target platform
HasSession(h) == session[h].t = "object"

AuthThrew(h) == Outcomes(h, "throw", "authenticate", "-") # {}

Unmigrated(h, n) == ~NonEmpty(docs[h][n].data.shopifyId)

\* the product creation of d returned and its response carried the id
CreatedWithId(h, d) ==
  \E r \in Outcomes(h, "return", "Product.create", d) :
    log[h][r].id.t = "number"

\* the record failed inside the per-record try
FailedInTry(h, d) ==
  \E of \in {"Product.create", "Metafield.create", "update"} :
    Outcomes(h, "throw", of, d) # {}

\* the keys of the four metadata fields whose source value is truthy
TruthyKeys(p) ==
  SelectSeq(<<"brand", "suppdate", "suppinvo", "value">>,
            LAMBDA key : NonEmpty(p[key]))

\* the keys of the metafield creation calls issued for d, in call order
MfKeys(h, d) ==
  LET sel == SelectSeq(log[h],
               LAMBDA e : e.op = "Metafield.create" /\ e.doc = d)
  IN [m \in 1..Len(sel) |-> sel[m].key]

\* ---------------------------------------------------------------- C1
\* C1: a request whose secret is missing, empty or different from
\* MIGRATION_SECRET is answered 401, and the invocation makes no call to the
\* document store (no init, no read, no update) nor to the shop.
C1_BadSecretRejected ==
  \A h \in Handlers :
    (pc[h] # "idle" /\ BadSecret(h)) =>
      /\ pc[h] = "done"
      /\ response[h].status = 401
      /\ ExternalCalls(h) = {}
      /\ adminApps = 0
      /\ products = <<>>

C1_Witness ==
  \E h \in Handlers :
    /\ pc[h] = "done"
    /\ request[h].secret = Str("wrong")
    /\ env.MIGRATION_SECRET = Str("s3cret")
    /\ response[h].status = 401

\* ---------------------------------------------------------------- C2
\* C2 as stated: with a valid secret and no session from the authentication
\* collaborator, the handler answers 401 and makes no store read, product
\* creation, metafield creation or document update.
C2_NoSessionRejected ==
  \A h \in Handlers :
    (pc[h] # "idle" /\ ~BadSecret(h) /\ ~HasSession(h)) =>
      /\ ExternalCalls(h) = {}
      /\ (pc[h] = "done" /\ ~AuthThrew(h)) => response[h].status = 401

\* C2 amended: that holds of the loader that consults the authentication
\* collaborator (lines 50-216); the token loader (lines 279-419) never
\* consults it and runs the migration without any session.
C2_SessionLoaderRejected ==
  \A h \in Handlers :
    /\ (pc[h] # "idle" /\ variant[h] = "session" /\ ~BadSecret(h)
          /\ ~HasSession(h)) =>
         /\ ExternalCalls(h) = {}
         /\ (pc[h] = "done" /\ ~AuthThrew(h)) => response[h].status = 401
    /\ (pc[h] # "idle" /\ variant[h] = "token") =>
         /\ ~HasSession(h)
         /\ \A m \in DOMAIN log[h] : log[h][m].op # "authenticate"

C2_Witness ==
  \E h \in Handlers :
    /\ pc[h] = "done"
    /\ variant[h] = "session"
    /\ ~BadSecret(h)
    /\ session[h] = Null
    /\ response[h].status = 401

\* ---------------------------------------------------------------- C3
\* C3: a record that carries a non-empty shopifyId when the collection is
\* read gets no product creation, no metafield creation and no update in
\* that invocation; its stored data is unchanged and it is not counted.
C3_MigratedSkipped ==
  \A h \in Handlers : \A n \in DOMAIN docs[h] :
    NonEmpty(docs[h][n].data.shopifyId) =>
      LET d == docs[h][n].id
      IN /\ CallsOf(h, "Product.create", d) = {}
         /\ CallsOf(h, "Metafield.create", d) = {}
         /\ CallsOf(h, "update", d) = {}
         /\ store[n] = docs[h][n]
         /\ d \notin Counted(h)
         /\ migrated[h] = Cardinality(Counted(h))

C3_Witness ==
  \E h \in Handlers : \E n \in DOMAIN docs[h] :
    /\ pc[h] = "done"
    /\ response[h].status = 200
    /\ NonEmpty(docs[h][n].data.shopifyId)
    /\ CallsOf(h, "skip", docs[h][n].id) # {}
    /\ response[h].migrated = 1

\* ---------------------------------------------------------------- C4
\* C4: on the success response the migrated count is the number of records
\* that had no target id at the start and now store a non-empty target id
\* and a migration timestamp; every counted record stores a non-empty id.
C4_CountMatchesMarkers ==
  \A h \in Handlers :
    (pc[h] = "done" /\ response[h].status = 200) =>
      /\ response[h].migrated =
           Cardinality({n \in DOMAIN docs[h] :
              /\ Unmigrated(h, n)
              /\ NonEmpty(store[n].data.shopifyId)
              /\ NonEmpty(store[n].data.migratedAt)})
      /\ \A n \in DOMAIN docs[h] :
           docs[h][n].id \in Counted(h) => NonEmpty(store[n].data.shopifyId)

\* ---------------------------------------------------------------- C5
\* C5: when an unmigrated record has no rate, that record is not counted
\* and gets no target id, every later record is still processed, and the
\* invocation ends with the 200 success response.
C5_MissingRateSkipsRecord ==
  \A h \in Handlers : \A n \in DOMAIN docs[h] :
    (pc[h] = "done" /\ Unmigrated(h, n) /\ Nullish(docs[h][n].data.rate)) =>
      /\ response[h].status = 200
      /\ docs[h][n].id \notin Counted(h)
      /\ ~NonEmpty(store[n].data.shopifyId)
      /\ \A m \in DOMAIN docs[h] :
           (m > n /\ Unmigrated(h, m) /\ ~Nullish(docs[h][m].data.rate)) =>
             CallsOf(h, "Product.create", docs[h][m].id) # {}

\* ---------------------------------------------------------------- C6
\* C6: when product creation, a metafield creation or the write-back fails
\* for a record, the record is not counted and not retried, every later
\* record is still processed and the invocation ends with HTTP 200.
C6_FailureIsPerRecord ==
  \A h \in Handlers : \A n \in DOMAIN docs[h] :
    (pc[h] = "done" /\ FailedInTry(h, docs[h][n].id)) =>
      /\ response[h].status = 200
      /\ docs[h][n].id \notin Counted(h)
      /\ Cardinality(CallsOf(h, "Product.create", docs[h][n].id)) = 1
      /\ \A m \in DOMAIN docs[h] :
           (m > n /\ Unmigrated(h, m)) =>
             CallsOf(h, "Product.create", docs[h][m].id) # {}

\* ---------------------------------------------------------------- C7
\* C7: every metafield creation call of a record comes after the record's
\* product creation returned, and its owner id is a defined product id.
C7_MetafieldOwnerKnown ==
  \A h \in Handlers : \A m \in DOMAIN log[h] :
    log[h][m].op = "Metafield.create" =>
      /\ \E r \in Outcomes(h, "return", "Product.create", log[h][m].doc) :
           r < m
      /\ log[h][m].owner_id.t = "number"

\* ---------------------------------------------------------------- C8
\* C8: every document update targets a record whose product creation
\* returned earlier in the invocation and names only shopifyId and
\* migratedAt; every other stored field keeps its value, and a record is
\* changed only by an update that resolved.
C8_MarkerOnlyAfterCreate ==
  \A h \in Handlers :
    /\ \A m \in DOMAIN log[h] :
         log[h][m].op = "update" =>
           /\ \E r \in Outcomes(h, "return", "Product.create", log[h][m].doc) :
                r < m
           /\ DOMAIN log[h][m].data = {"shopifyId", "migratedAt"}
    /\ \A n \in DOMAIN docs[h] :
         /\ [store[n].data EXCEPT !.shopifyId = Undefined,
                                    !.migratedAt = Undefined]
              = [docs[h][n].data EXCEPT !.shopifyId = Undefined,
                                        !.migratedAt = Undefined]
         /\ store[n] # docs[h][n] => docs[h][n].id \in Counted(h)

C8_Witness ==
  \E h \in Handlers : \E n \in DOMAIN docs[h] :
    /\ docs[h][n].id \in Counted(h)
    /\ docs[h][n].data.migratedAt = Undefined
    /\ store[n].data.migratedAt = Now
    /\ store[n].data.shopifyId.t = "number"

\* ---------------------------------------------------------------- C9
\* C9 as stated: when a metafield creation of a record fails after its
\* product was created (and its id returned), the target id and the
\* migration timestamp are still written to the record.
C9_MetafieldFailureKeepsMarker ==
  \A h \in Handlers : \A n \in DOMAIN docs[h] :
    (pc[h] = "done" /\ CreatedWithId(h, docs[h][n].id)
       /\ Outcomes(h, "throw", "Metafield.create", docs[h][n].id) # {}) =>
      /\ NonEmpty(store[n].data.shopifyId)
      /\ NonEmpty(store[n].data.migratedAt)

\* C9 amended: a failed metafield creation blocks the marker write: the
\* product was created, no update is issued for the record, its stored data
\* is unchanged and it is not counted.
C9_MetafieldFailureBlocksMarker ==
  \A h \in Handlers : \A n \in DOMAIN docs[h] :
    Outcomes(h, "throw", "Metafield.create", docs[h][n].id) # {} =>
      /\ Outcomes(h, "return", "Product.create", docs[h][n].id) # {}
      /\ CallsOf(h, "update", docs[h][n].id) = {}
      /\ store[n] = docs[h][n]
      /\ docs[h][n].id \notin Counted(h)

C9_Witness ==
  \E h \in Handlers : \E n \in DOMAIN docs[h] :
    /\ pc[h] = "done"
    /\ response[h].status = 200
    /\ Outcomes(h, "throw", "Metafield.create", docs[h][n].id) # {}
    /\ CreatedWithId(h, docs[h][n].id)
    /\ \E x \in DOMAIN products : products[x].src = docs[h][n].id

\* --------------------------------------------------------------- C10
\* C10 as stated: for a record whose product creation succeeded (and
\* returned the id) the metafield creation calls are exactly those of the
\* truthy fields among brand, suppdate, suppinvo, value, one each, in that
\* order.
C10_ExactlyTruthyFields ==
  \A h \in Handlers : \A n \in DOMAIN docs[h] :
    (pc[h] = "done" /\ CreatedWithId(h, docs[h][n].id)) =>
      MfKeys(h, docs[h][n].id) = TruthyKeys(docs[h][n].data)

\* C10 amended: the calls are those of the truthy fields, one each, in that
\* order, up to and including the first call that fails, and all of them
\* when none fails; a falsy field never triggers a call; at most four calls.
C10_TruthyFieldsUntilFailure ==
  \A h \in Handlers : \A n \in DOMAIN docs[h] :
    LET d == docs[h][n].id
        ks == MfKeys(h, d)
        tk == TruthyKeys(docs[h][n].data)
        threw == Outcomes(h, "throw", "Metafield.create", d)
    IN /\ Len(ks) <= Len(tk)
       /\ ks = SubSeq(tk, 1, Len(ks))
       /\ Len(ks) <= 4
       /\ Cardinality(threw) <= 1
       /\ \A x \in threw :
            \A m \in CallsOf(h, "Metafield.create", d) : m < x
       /\ (threw = {} /\ (pc[h] = "done" \/ CallsOf(h, "update", d) # {})
             /\ Outcomes(h, "return", "Product.create", d) # {}) => ks = tk

C10_Witness ==
  \E h \in Handlers : \E n \in DOMAIN docs[h] :
    /\ pc[h] = "done"
    /\ MfKeys(h, docs[h][n].id) = <<"suppdate", "value">>
    /\ docs[h][n].data.brand = Str("")
    /\ docs[h][n].id \in Counted(h)

\* ------------------------------------- two requests, one after the other
\* the key file is removed from the file system while the process lives
\* (fs.existsSync is evaluated anew by every initFirebaseFromEnv)
KeyFileRemoved ==
  /\ env.fileExists
  /\ env' = [env EXCEPT !.fileExists = FALSE]
  /\ UNCHANGED <<adminApps, store, request, session, products, pc, variant,
                 docs, i, k, mf, shopifyId, migrated, response, log>>

\* the request of invocation h reaches the loader that served invocation g
RequestSame(h, g) ==
  \E secret \in Secrets : Request(h, variant[g], secret)

\* a process whose secret is configured
RerunEnvs == {e \in Envs : Truthy(e.MIGRATION_SECRET)}

\* the collections of at most one record, and one of two records
RerunCollections ==
  {c \in Collections : Len(c) <= 1} \cup {Filled(2, 0, BatchRecord)}

InitRerun ==
  /\ env \in RerunEnvs
  /\ adminApps = 0
  /\ store \in RerunCollections
  /\ request = [h \in Handlers |-> [secret |-> Null]]
  /\ session = [h \in Handlers |-> Undefined]
  /\ products = <<>>
  /\ pc = [h \in Handlers |-> "idle"]
  /\ variant = [h \in Handlers |-> "session"]
  /\ docs = [h \in Handlers |-> <<>>]
  /\ i = [h \in Handlers |-> 0]
  /\ k = [h \in Handlers |-> 0]
  /\ mf = [h \in Handlers |-> 0]
  /\ shopifyId = [h \in Handlers |-> Undefined]
  /\ migrated = [h \in Handlers |-> 0]
  /\ response = [h \in Handlers |-> NoResponse]
  /\ log = [h \in Handlers |-> <<>>]

\* invocation 1, then invocation 2 of the same loader once 1 has responded
NextRerun ==
  \/ Step(1)
  \/ (pc[1] = "done" /\ RequestSame(2, 1))
  \/ Run(2)
  \/ KeyFileRemoved

SpecRerun == InitRerun /\ [][NextRerun]_vars

\* ------------------------------------------ two requests that overlap
\* the collections of at most one record
OverlapCollections == {c \in Collections : Len(c) <= 1}

InitOverlap ==
  /\ env \in BatchEnvs
  /\ adminApps = 0
  /\ store \in OverlapCollections
  /\ request = [h \in Handlers |-> [secret |-> Null]]
  /\ session = [h \in Handlers |-> Undefined]
  /\ products = <<>>
  /\ pc = [h \in Handlers |-> "idle"]
  /\ variant = [h \in Handlers |-> "session"]
  /\ docs = [h \in Handlers |-> <<>>]
  /\ i = [h \in Handlers |-> 0]
  /\ k = [h \in Handlers |-> 0]
  /\ mf = [h \in Handlers |-> 0]
  /\ shopifyId = [h \in Handlers |-> Undefined]
  /\ migrated = [h \in Handlers |-> 0]
  /\ response = [h \in Handlers |-> NoResponse]
  /\ log = [h \in Handlers |-> <<>>]

\* invocation 2 of the same loader starts at any time after invocation 1
\* has started, and the awaits of the two interleave
NextOverlap ==
  \/ Step(1)
  \/ (pc[1] # "idle" /\ RequestSame(2, 1))
  \/ Run(2)

SpecOverlap == InitOverlap /\ [][NextOverlap]_vars

\* --------------------------------------------------------------- C11
\* the collection read of the invocation returned
ReadDone(h) == Outcomes(h, "return", "collection.get", "-") # {}

\* the records the invocation skipped or submitted, in that order
Visits(h) ==
  LET sel == SelectSeq(log[h],
               LAMBDA e : e.op \in {"skip", "Product.create"})
  IN [m \in 1..Len(sel) |-> sel[m].doc]

\* the positions in the log of the batch pauses
BatchPauses(h) ==
  {m \in DOMAIN log[h] :
     log[h][m].op = "sleep" /\ log[h][m].ms = BatchPause}

\* how many records were skipped or submitted before log position m
VisitsBefore(h, m) ==
  Cardinality({x \in 1..(m - 1) :
                 log[h][x].op \in {"skip", "Product.create"}})

CeilDiv(n, d) == (n + d - 1) \div d

\* C11: an invocation that read a collection of n records processes every
\* record exactly once in collection order, in ceil(n/10) batches of 10
\* records except possibly the last; BatchDocs unmigrated records that all
\* succeed end in the response {success, migrated: BatchDocs}.
C11_EveryRecordOnceInBatches ==
  \A h \in Handlers :
    (pc[h] = "done" /\ ReadDone(h)) =>
      LET n == Len(docs[h])
      IN /\ Visits(h) = [m \in 1..n |-> docs[h][m].id]
         /\ Cardinality(BatchPauses(h)) = CeilDiv(n, BATCH_SIZE)
         /\ \A m \in BatchPauses(h) :
              LET b == Cardinality({x \in BatchPauses(h) : x <= m})
              IN VisitsBefore(h, m) = Min(b * BATCH_SIZE, n)
         /\ ( /\ \A m \in 1..n : Unmigrated(h, m)
              /\ \A m \in DOMAIN log[h] : log[h][m].op # "throw" )
            => response[h] = [status |-> 200, body |-> "success",
                              migrated |-> n]

\* --------------------------------------------------------------- C12
\* the invocation passed the secret check and, in the session loader, the
\* session check: it has called initFirebaseFromEnv
PastChecks(h) ==
  /\ pc[h] # "idle"
  /\ ~BadSecret(h)
  /\ variant[h] = "session" => (pc[h] # "authenticate" /\ HasSession(h))

\* neither credential setting is present, or the key file path is set and
\* the file is not there
NoCredentials(e) ==
  \/ ~Truthy(e.FIREBASE_SERVICE_ACCOUNT_PATH)
       /\ ~Truthy(e.FIREBASE_SERVICE_ACCOUNT_JSON)
  \/ Truthy(e.FIREBASE_SERVICE_ACCOUNT_PATH) /\ ~e.fileExists

CredentialErrors ==
  {"Firebase service account file not found", "No Firebase credentials found"}

Initializations(h) == {m \in DOMAIN log[h] : log[h][m].op = "initializeApp"}

\* C12: with the client not initialized and no usable credential setting,
\* an invocation that reaches the initialization ends with HTTP 500 and an
\* error message and makes no read, product creation or update; the client
\* is initialized at most once per process, and an invocation that follows
\* the initializing one initializes nothing and raises no credential error.
C12_InitOncePerProcess ==
  /\ adminApps <= 1
  /\ Cardinality(Initializations(1)) + Cardinality(Initializations(2)) <= 1
  /\ \A h \in Handlers :
       (PastChecks(h) /\ adminApps = 0 /\ NoCredentials(env)) =>
         /\ pc[h] = "done"
         /\ response[h].status = 500
         /\ response[h].body # ""
         /\ ExternalCalls(h) = {}
         /\ products = <<>>
  /\ \A g, h \in Handlers :
       (g # h /\ Initializations(g) # {} /\ PastChecks(h)) =>
         /\ Initializations(h) = {}
         /\ response[h].body \notin CredentialErrors
         /\ \E m \in DOMAIN log[h] : log[h][m].op = "collection.get"

\* an invocation initialized the client, the key file was removed, and the
\* next invocation ran the migration to its success response
C12_Witness ==
  /\ Initializations(1) # {}
  /\ NoCredentials(env)
  /\ PastChecks(2)
  /\ pc[2] = "done"
  /\ response[2].status = 200

\* --------------------------------------------------------------- C13
\* the calls of the invocation to the shop or the store that resolved
Effects(h) ==
  {m \in DOMAIN log[h] :
     /\ log[h][m].op = "return"
     /\ log[h][m].of \in {"Product.create", "Metafield.create", "update"}}

\* C13: an invocation that ends with HTTP 401 or 500 has created no
\* product and no metafield and updated no record; an invocation that has
\* skipped or submitted a record can only end with HTTP 200.
C13_ErrorsOnlyInSetup ==
  \A h \in Handlers :
    (pc[h] = "done" /\ response[h].status \in {401, 500}) =>
      /\ Effects(h) = {}
      /\ Visits(h) = <<>>

\* --------------------------------------------------------------- C14
IsPause(e, ms) == e.op = "sleep" /\ e.ms = ms

\* the event ends the processing of a submitted record: its migration
\* succeeded (the update returned) or failed inside the per-record try
EndsSubmitted(e) ==
  \/ e.op = "return" /\ e.of = "update"
  \/ e.op = "throw" /\ e.of \in {"Product.create", "Metafield.create",
                                   "update"}

\* the event starts a record: it is skipped or submitted
StartsRecord(e) == e.op \in {"skip", "Product.create"}

\* the event at log position m is followed at once by the pause ms
PauseFollows(h, m, ms) ==
  m + 1 \in DOMAIN log[h] /\ IsPause(log[h][m + 1], ms)

\* the position of the record d in the collection the invocation read
IndexOf(h, d) == CHOOSE n \in DOMAIN docs[h] : docs[h][n].id = d

BatchPausesBefore(h, m) ==
  Cardinality({x \in BatchPauses(h) : x < m})

\* the batch pause at the right places: as many batch pauses before a
\* record starts as there are batches before its own, and the success
\* response of a non-empty collection right after the pause of the last
BatchPauseAfterEveryBatch(h) ==
  /\ \A m \in DOMAIN log[h] :
       StartsRecord(log[h][m]) =>
         BatchPausesBefore(h, m) =
           (IndexOf(h, log[h][m].doc) - 1) \div BATCH_SIZE
  /\ (pc[h] = "done" /\ response[h].status = 200 /\ docs[h] # <<>>) =>
       /\ IsPause(log[h][Len(log[h])], BatchPause)
       /\ Cardinality(BatchPauses(h)) = CeilDiv(Len(docs[h]), BATCH_SIZE)

\* C14 as stated: every record iterated, whether its migration succeeded
\* or failed or the record was skipped, is followed by the 350 ms pause,
\* and every batch, the last included, by the 1000 ms pause.
C14_PauseAfterEveryRecord ==
  \A h \in Handlers :
    /\ \A m \in DOMAIN log[h] :
         (EndsSubmitted(log[h][m]) \/ log[h][m].op = "skip") =>
           PauseFollows(h, m, RecordPause)
    /\ BatchPauseAfterEveryBatch(h)

\* C14 amended: the 350 ms pause follows every record that was submitted
\* for product creation, succeeded or failed, and only those; a record
\* skipped as already migrated is passed without a pause; the 1000 ms
\* pause follows every batch, the last included.
C14_PauseAfterSubmittedRecord ==
  \A h \in Handlers :
    /\ \A m \in DOMAIN log[h] :
         /\ EndsSubmitted(log[h][m]) => PauseFollows(h, m, RecordPause)
         /\ log[h][m].op = "skip" => ~PauseFollows(h, m, RecordPause)
         /\ IsPause(log[h][m], RecordPause) =>
              (m > 1 /\ EndsSubmitted(log[h][m - 1]))
    /\ BatchPauseAfterEveryBatch(h)

\* two batches, with a skipped record, a failed record and counted records
C14_Witness ==
  \E h \in Handlers :
    /\ pc[h] = "done"
    /\ response[h].status = 200
    /\ response[h].migrated > 0
    /\ Cardinality(BatchPauses(h)) = 2
    /\ \E m \in DOMAIN log[h] : log[h][m].op = "skip"
    /\ \E m \in DOMAIN log[h] : log[h][m].op = "throw"

\* --------------------------------------------------------------- C15
RecordCalls == {"Product.create", "Metafield.create", "update"}

IsCall(e) == e.op \in RecordCalls

IsOutcome(e) == e.op \in {"return", "throw"} /\ e.of \in RecordCalls

\* how many calls of the invocation have neither returned nor thrown
InFlight(h) ==
  Cardinality({m \in DOMAIN log[h] : IsCall(log[h][m])})
    - Cardinality({m \in DOMAIN log[h] : IsOutcome(log[h][m])})

\* the collection positions of the records of the events that start a
\* record or belong to a call, in log order
RecordOrder(h) ==
  LET sel == SelectSeq(log[h],
               LAMBDA e : StartsRecord(e) \/ IsCall(e) \/ IsOutcome(e))
  IN [m \in 1..Len(sel) |-> IndexOf(h, sel[m].doc)]

\* C15: within one invocation at most one product creation, metafield
\* creation or document update is in flight (the one the invocation is
\* suspended at), the next call starts only after the outcome of the one
\* before, and every call of a record has returned or thrown before
\* anything is done for a later record.
C15_StrictlySequential ==
  \A h \in Handlers :
    LET n == Len(log[h])
        order == RecordOrder(h)
    IN /\ InFlight(h) \in {0, 1}
       /\ InFlight(h) = 1 <=> pc[h] \in RecordCalls
       /\ InFlight(h) = 1 => (IsCall(log[h][n]) /\ log[h][n].op = pc[h])
       /\ \A m \in 1..(n - 1) :
            /\ IsCall(log[h][m]) =>
                 /\ IsOutcome(log[h][m + 1])
                 /\ log[h][m + 1].of = log[h][m].op
                 /\ log[h][m + 1].doc = log[h][m].doc
            /\ IsOutcome(log[h][m + 1]) => IsCall(log[h][m])
       /\ \A m \in 2..Len(order) : order[m - 1] <= order[m]

\* the second record is being created after the first record went through
\* product creation, a metafield creation and the write-back
C15_Witness ==
  \E h \in Handlers :
    /\ Len(docs[h]) >= 2
    /\ pc[h] = "Product.create"
    /\ Current(h).id = docs[h][2].id
    /\ Outcomes(h, "return", "Metafield.create", docs[h][1].id) # {}
    /\ Outcomes(h, "return", "update", docs[h][1].id) # {}

\* --------------------------------------------------------------- C16
Responded(h) == response[h] # NoResponse

\* C16: when every collaborator call returns or throws, every invocation
\* that started terminates, and it returns exactly one response, of status
\* 200, 401 or 500: none before it is done, one when it is done, and the
\* response never changes afterwards.
C16_TerminatesWithOneResponse ==
  /\ [](\A h \in Handlers :
          /\ Responded(h) <=> pc[h] = "done"
          /\ Responded(h) => response[h].status \in {200, 401, 500})
  /\ [][\A h \in Handlers :
          Responded(h) => (response'[h] = response[h] /\ pc'[h] = "done")]_vars
  /\ \A h \in Handlers : (pc[h] # "idle") ~> (pc[h] = "done")

\* an invocation is done with the success response after one record failed
\* and another was skipped
C16_Witness ==
  \E h \in Handlers :
    /\ pc[h] = "done"
    /\ response[h].status = 200
    /\ \E m \in DOMAIN log[h] : log[h][m].op = "skip"
    /\ \E d \in {docs[h][n].id : n \in DOMAIN docs[h]} : FailedInTry(h, d)

\* --------------------------------------------------------------- C17
Succeeded(h) == pc[h] = "done" /\ response[h].status = 200

Submitted(h, d) == CallsOf(h, "Product.create", d) # {}

Skipped(h, d) == CallsOf(h, "skip", d) # {}

\* C17: of two sequential invocations over the same collection, the second
\* submits again every record that the first left without a marker, skips
\* every record whose marker the first wrote, and, when the first counted
\* every record it found unmigrated, creates nothing and returns migrated 0.
C17_RerunRetriesAndSkips ==
  (Succeeded(1) /\ Succeeded(2)) =>
    /\ \A n \in DOMAIN docs[1] :
         LET d == docs[1][n].id
         IN /\ (Unmigrated(1, n) /\ d \notin Counted(1)) => Submitted(2, d)
            /\ d \in Counted(1) => (Skipped(2, d) /\ ~Submitted(2, d))
    /\ (\A n \in DOMAIN docs[1] :
          Unmigrated(1, n) => docs[1][n].id \in Counted(1))
         => /\ \A d \in {docs[2][n].id : n \in DOMAIN docs[2]} :
                 ~Submitted(2, d)
            /\ response[2].migrated = 0

\* --------------------------------------------------------------- C18
\* the products on the shop that were created from the record d
ProductsOf(d) == {x \in DOMAIN products : products[x].src = d}

\* every creation response of every invocation carried the product id
EveryCreationHasId ==
  \A h \in Handlers : \A m \in DOMAIN log[h] :
    (log[h][m].op = "return" /\ log[h][m].of = "Product.create")
      => log[h][m].id.t = "number"

\* C18: over sequential invocations, whatever metafield creations and
\* write-backs fail, at most one product is created on the shop for each
\* Source Record (the creation responses all carrying their id).
C18_AtMostOneProductPerRecord ==
  EveryCreationHasId =>
    \A n \in DOMAIN store : Cardinality(ProductsOf(store[n].id)) <= 1

\* --------------------------------------------------------------- C19
\* the step submits a record of invocation h for product creation
Submits(h) ==
  /\ Len(log'[h]) > Len(log[h])
  /\ log'[h][Len(log'[h])].op = "Product.create"

\* the shopifyId the store holds for the record d
StoredId(d) ==
  LET n == CHOOSE x \in DOMAIN store : store[x].id = d
  IN store[n].data.shopifyId

\* C19: when two invocations overlap, no record is submitted for product
\* creation while the store holds a non-empty shopifyId for it, and no
\* record has a product created by both invocations.
C19_NoStaleSubmission ==
  [][ /\ \A h \in Handlers :
          Submits(h) => ~NonEmpty(StoredId(log'[h][Len(log'[h])].doc))
      /\ \A n \in DOMAIN store :
          ~( /\ Outcomes(1, "return", "Product.create", store[n].id) # {}
             /\ Outcomes(2, "return", "Product.create", store[n].id) # {} )
    ]_vars

====
